---- MODULE Spec2Model ----
(***************************************************************************)
(* A model of squirrel's Catalog (squirrel/catalog/catalog.py): a registry *)
(* mapping an identifier to the numbered versions of a source, with the    *)
(* create-on-assign placeholder (DummyCatalogSource) and the set-algebra   *)
(* operations, which all work on deep copies of their operands.            *)
(*                                                                         *)
(* Objects live in a heap.  A catalog object is a slot; its _sources dict  *)
(* maps an identifier to the address of the entry object stored under it,  *)
(* and the heap maps that address to the entry's versions dict.  Two       *)
(* catalogs that hold the same address share the entry, so isolation after *)
(* copy() is a property the model can violate.                             *)
(***************************************************************************)
EXTENDS Integers, Sequences, FiniteSets, TLC

\* ------------------------------------------------------------------ bounds
\* Versions assigned by the callers range over -1 .. MaxVer.
MaxVer == 2
\* An operand catalog drawn for the set algebra holds at most MaxPairs pairs.
MaxPairs == 2
\* A plugin contributes at most MaxFrag (CatalogKey, Source) pairs.
MaxFrag == 2

\* ------------------------------------------------------- program constants
\* CatalogKey.version's default, the "latest version" sentinel.
Sentinel == -1
\* CatalogSource.__init__'s default version.
DefaultVersion == 1

Idents == {"ds1", "ds2"}

\* Source: driver name, driver parameters, metadata (all opaque here).
Sources ==
  { [driver_name |-> "csv", driver_kwargs |-> "k0", metadata |-> "m0"],
    [driver_name |-> "json", driver_kwargs |-> "k0", metadata |-> "m1"] }

\* The versions a caller may try to assign, the sentinel and zero included.
Indexes == Sentinel .. MaxVer

\* Catalog objects: the caller's A and B, the result R of a derivation, and
\* the temporaries the operations make (T1, T2: the copies of the operands;
\* T3: the catalog join and __eq__ compute; T4: the catalog of one file).
Slots == {"A", "B", "R", "T1", "T2", "T3", "T4"}
\* The address of an entry object: the catalog it was made for and the
\* identifier it was stored under when it was made.
Addr == Slots \X Idents

\* ------------------------------------------------------------------- dicts
EmptyDict == [x \in {} |-> x]
DictSet(d, k, v) == [x \in DOMAIN d \cup {k} |-> IF x = k THEN v ELSE d[x]]
DictDel(d, k) == [x \in DOMAIN d \ {k} |-> d[x]]

\* ----------------------------------------------------------------- objects
\* Source.__eq__: all three fields equal.
Source_eq(x, y) ==
  /\ x.driver_name = y.driver_name
  /\ x.driver_kwargs = y.driver_kwargs
  /\ x.metadata = y.metadata

\* CatalogSource.__init__: the source's three fields, bound to an identifier,
\* a version and the owning catalog.
CatalogSource(s, ident, cat, ver) ==
  [identifier |-> ident, version |-> ver, catalog |-> cat,
   driver_name |-> s.driver_name, driver_kwargs |-> s.driver_kwargs,
   metadata |-> s.metadata]

\* CatalogSource.__eq__
CatalogSource_eq(x, y) ==
  IF x.identifier # y.identifier THEN FALSE
  ELSE IF x.version # y.version THEN FALSE
  ELSE Source_eq(x, y)

\* The greatest key of a versions dict.
MaxKey(d) == CHOOSE v \in DOMAIN d : \A u \in DOMAIN d : u <= v

\* entry[index]: the sentinel resolves to the greatest version present.
Entry_getitem(d, index) == IF index = Sentinel THEN d[MaxKey(d)] ELSE d[index]

\* index in entry
Entry_contains(d, index) == index \in DOMAIN d

\* ------------------------------------------------------------------- world
\* A world is the heap the operations run in: every catalog's _sources and
\* every entry's versions dict.
EmptyWorld ==
  [sources |-> [c \in Slots |-> EmptyDict],
   heap |-> [c \in Slots |-> [k \in Idents |-> EmptyDict]]]

\* The versions dict at address a.
At(w, a) == w.heap[a[1]][a[2]]

Ok(w) == [w |-> w, ok |-> TRUE]
Fail(w) == [w |-> w, ok |-> FALSE]

\* Catalog.__init__ at slot c: a new, empty catalog object (the object the
\* slot held before is garbage, and so are the entries it owned).
Catalog_init(w, c) ==
  [sources |-> [w.sources EXCEPT ![c] = EmptyDict],
   heap |-> [w.heap EXCEPT ![c] = [k \in Idents |-> EmptyDict]]]

\* Catalog.__contains__
Catalog_contains(w, c, k) == k \in DOMAIN w.sources[c]

\* Catalog.keys, Catalog.__len__
Catalog_keys(w, c) == DOMAIN w.sources[c]
Catalog_len(w, c) == Cardinality(Catalog_keys(w, c))

\* The versions dict of the entry stored under k (CatalogSource.versions).
Versions(w, c, k) == At(w, w.sources[c][k])

\* Storing a newly made entry object under k: the new object is referenced
\* by nothing but _sources[k].
StoreNew(w, c, k, cs) ==
  [sources |-> [w.sources EXCEPT ![c] = DictSet(@, k, <<c, k>>)],
   heap |-> [w.heap EXCEPT ![c][k] = DictSet(EmptyDict, cs.version, cs)]]

\* Catalog.__setitem__ as it would be if it assigned the default version
\* into the entry already stored under k instead of replacing the entry.
Catalog_setitem_keep(w, c, k, s) ==
  IF k \in DOMAIN w.sources[c]
  THEN Ok([w EXCEPT !.heap[w.sources[c][k][1]][w.sources[c][k][2]] =
             DictSet(@, DefaultVersion, CatalogSource(s, k, c, DefaultVersion))])
  ELSE Ok(StoreNew(w, c, k, CatalogSource(s, k, c, DefaultVersion)))

\* Catalog.__setitem__: the whole entry is replaced by one CatalogSource at
\* the default version.
Catalog_setitem(w, c, k, s) ==
  Ok(StoreNew(w, c, k, CatalogSource(s, k, c, DefaultVersion)))

\* Catalog.__delitem__: del on a dict raises KeyError for a missing key.
Catalog_delitem(w, c, k) ==
  IF k \notin DOMAIN w.sources[c] THEN Fail(w)
  ELSE Ok([sources |-> [w.sources EXCEPT ![c] = DictDel(@, k)],
           heap |-> IF w.sources[c][k] = <<c, k>>
                    THEN [w.heap EXCEPT ![c][k] = EmptyDict]
                    ELSE w.heap])

\* DummyCatalogSource.__init__
DummyCatalogSource(ident, cat) ==
  [kind |-> "dummy", identifier |-> ident, catalog |-> cat]

\* Catalog.__getitem__ as it would be if it returned the entry at the least
\* version (the wrong end of the versions).
Catalog_getitem_first(w, c, k) ==
  IF ~Catalog_contains(w, c, k) THEN DummyCatalogSource(k, c)
  ELSE [kind |-> "source", addr |-> w.sources[c][k],
        cs |-> LET d == Versions(w, c, k)
               IN d[CHOOSE v \in DOMAIN d : \A u \in DOMAIN d : v <= u]]

\* Catalog.__getitem__: a placeholder for a missing identifier, else the
\* entry at the sentinel version.
Catalog_getitem(w, c, k) ==
  IF ~Catalog_contains(w, c, k) THEN DummyCatalogSource(k, c)
  ELSE [kind |-> "source", addr |-> w.sources[c][k],
        cs |-> Entry_getitem(Versions(w, c, k), Sentinel)]

\* DummyCatalogSource.__setitem__ as it would be without its assertion.
Dummy_setitem_nocheck(w, d, index, s) ==
  Ok(StoreNew(w, d.catalog, d.identifier,
              CatalogSource(s, d.identifier, d.catalog, index)))

\* DummyCatalogSource.__setitem__ as it would be if it did not pass the
\* version on to CatalogSource.
Dummy_setitem_default(w, d, index, s) ==
  IF ~(index > 0) THEN Fail(w)
  ELSE Ok(StoreNew(w, d.catalog, d.identifier,
                   CatalogSource(s, d.identifier, d.catalog, DefaultVersion)))

\* DummyCatalogSource.__setitem__
Dummy_setitem(w, d, index, s) ==
  IF ~(index > 0) THEN Fail(w)
  ELSE Ok(StoreNew(w, d.catalog, d.identifier,
                   CatalogSource(s, d.identifier, d.catalog, index)))

\* CatalogSource.__setitem__ on the entry t that catalog[k] returned: the
\* version is added to (or replaced in) the versions dict all the entry's
\* versions share.
Entry_setitem(w, t, index, s) ==
  IF ~(index > 0) THEN Fail(w)
  ELSE Ok([w EXCEPT !.heap[t.addr[1]][t.addr[2]] =
             DictSet(@, index,
                     CatalogSource(s, t.cs.identifier, t.cs.catalog, index))])

\* The statement  catalog[k][index] = s.
SetVersion(w, c, k, index, s) ==
  LET t == Catalog_getitem(w, c, k)
  IN IF t.kind = "dummy" THEN Dummy_setitem(w, t, index, s)
     ELSE Entry_setitem(w, t, index, s)

\* Catalog.__iter__: (identifier, entry at the sentinel version) pairs.
Catalog_iter(w, c) ==
  { <<k, Entry_getitem(Versions(w, c, k), Sentinel)>> : k \in Catalog_keys(w, c) }

\* ------------------------------------------------------------ copy, codec
\* The (identifier, version) pairs of a catalog.
Pairs(w, c) ==
  UNION { { <<k, v>> : v \in DOMAIN Versions(w, c, k) } : k \in Catalog_keys(w, c) }

\* The loop header
\*   for k in cat.keys(): for ver_id, version in cat[k].versions.items()
\* as the set of (k, ver_id, version) it runs over.
Items(w, c) ==
  { [k |-> p[1], v |-> p[2], value |-> Versions(w, c, p[1])[p[2]]] : p \in Pairs(w, c) }

\* The loop body  dst[k][ver_id] = version  run over a set of items; a
\* failing assignment ends the loop.
RECURSIVE AssignAll(_, _, _)
AssignAll(r, dst, items) ==
  IF items = {} \/ ~r.ok THEN r
  ELSE LET i == CHOOSE x \in items : TRUE
       IN AssignAll(SetVersion(r.w, dst, i.k, i.v, i.value), dst, items \ {i})

\* catalog2yamlcatalog and yaml.dump: the catalog as text, one document per
\* (identifier, version) holding plain data only (no object identity, no
\* reference to the catalog).
Encode(w, c) ==
  { [identifier |-> i.k, version |-> i.v, driver_name |-> i.value.driver_name,
     driver_kwargs |-> i.value.driver_kwargs, metadata |-> i.value.metadata]
    : i \in Items(w, c) }

\* yaml.load and yamlcatalog2catalog (Catalog.from_str): a new catalog at slot
\* dst with every document assigned at its identifier and version.
Decode(w, text, dst) ==
  AssignAll(Ok(Catalog_init(w, dst)), dst,
            { [k |-> d.identifier, v |-> d.version,
               value |-> [driver_name |-> d.driver_name,
                          driver_kwargs |-> d.driver_kwargs,
                          metadata |-> d.metadata]] : d \in text })

\* Catalog.copy as a shallow copy: a new _sources dict holding the same entry
\* objects.
Copy_shallow(w, c, dst) == Ok([w EXCEPT !.sources[dst] = w.sources[c]])

\* Catalog.copy: serialize to a string and back, into a new catalog at dst.
Copy(w, c, dst) == Decode(w, Encode(w, c), dst)

\* The temporaries of an operation become garbage when it returns.
RECURSIVE Collect(_, _)
Collect(w, temps) ==
  IF temps = {} THEN w
  ELSE LET c == CHOOSE x \in temps : TRUE
       IN Collect(Catalog_init(w, c), temps \ {c})

Done(r, temps) == [w |-> Collect(r.w, temps), ok |-> r.ok]

\* ------------------------------------------------------------- set algebra
\* Catalog.union as it would be with the operands' roles swapped: self is
\* merged on top of a copy of other.
Union_selfWins(w, a, b, dst) ==
  LET cat == Copy(w, b, dst)
      oth_cp == Copy(cat.w, a, "T1")
  IN Done(AssignAll(oth_cp, dst, Items(oth_cp.w, "T1")), {"T1"})

\* Catalog.union
Union(w, a, b, dst) ==
  LET cat == Copy(w, a, dst)
      oth_cp == Copy(cat.w, b, "T1")
  IN Done(AssignAll(oth_cp, dst, Items(oth_cp.w, "T1")), {"T1"})

\* Catalog.intersection as it would be without its assertion.
Intersection_nocheck(w, a, b, dst) ==
  LET cat1 == Copy(w, a, "T1")
      cat2 == Copy(cat1.w, b, "T2")
      w3 == Catalog_init(cat2.w, dst)
      shared == { i \in Items(w3, "T1") :
                    /\ Catalog_contains(w3, "T2", i.k)
                    /\ i.v \in DOMAIN Versions(w3, "T2", i.k) }
  IN Done(AssignAll(Ok(w3), dst, shared), {"T1", "T2"})

\* Catalog.intersection
Intersection(w, a, b, dst) ==
  LET cat1 == Copy(w, a, "T1")
      cat2 == Copy(cat1.w, b, "T2")
      w3 == Catalog_init(cat2.w, dst)
      shared == { i \in Items(w3, "T1") :
                    /\ Catalog_contains(w3, "T2", i.k)
                    /\ i.v \in DOMAIN Versions(w3, "T2", i.k) }
      agree == \A i \in shared :
                 CatalogSource_eq(Entry_getitem(Versions(w3, "T1", i.k), i.v),
                                  Entry_getitem(Versions(w3, "T2", i.k), i.v))
  IN IF ~agree THEN Done(Fail(w3), {"T1", "T2"})
     ELSE Done(AssignAll(Ok(w3), dst, shared), {"T1", "T2"})

\* The items of a_cat1 that a_cat_2 lacks (one pass of difference's loop).
Lacking(w, a_cat1, a_cat_2) ==
  { i \in Items(w, a_cat1) :
      \/ ~Catalog_contains(w, a_cat_2, i.k)
      \/ ~Entry_contains(Versions(w, a_cat_2, i.k), i.v) }

\* Catalog.difference as it would be with one pass only (self minus other).
Difference_oneSided(w, a, b, dst) ==
  LET cat1 == Copy(w, a, "T1")
      cat2 == Copy(cat1.w, b, "T2")
      w3 == Catalog_init(cat2.w, dst)
  IN Done(AssignAll(Ok(w3), dst, Lacking(w3, "T1", "T2")), {"T1", "T2"})

\* Catalog.difference
Difference(w, a, b, dst) ==
  LET cat1 == Copy(w, a, "T1")
      cat2 == Copy(cat1.w, b, "T2")
      w3 == Catalog_init(cat2.w, dst)
      pass1 == AssignAll(Ok(w3), dst, Lacking(w3, "T1", "T2"))
  IN Done(AssignAll(pass1, dst, Lacking(w3, "T2", "T1")), {"T1", "T2"})

\* Catalog.join as it would be without its assertion.
Join_nocheck(w, a, b, dst) == Union(w, a, b, dst)

\* Catalog.join
Join(w, a, b, dst) ==
  LET common == Intersection(w, a, b, "T3")
  IN IF ~common.ok THEN Done(common, {"T3"})
     ELSE IF Catalog_len(common.w, "T3") # 0 THEN Done(Fail(common.w), {"T3"})
     ELSE Union(Collect(common.w, {"T3"}), a, b, dst)

\* The predicates a caller passes to filter.
Preds == {"is_csv", "is_first"}
Pred(p, cs) ==
  IF p = "is_csv" THEN cs.driver_name = "csv" ELSE cs.version = 1

\* Catalog.filter
Filter(w, a, p, dst) ==
  LET cat1 == Copy(w, a, "T1")
      w2 == Catalog_init(cat1.w, dst)
  IN Done(AssignAll(Ok(w2), dst, { i \in Items(w2, "T1") : Pred(p, i.value) }),
          {"T1"})

Range(s) == { s[i] : i \in DOMAIN s }

\* Catalog.slice: cat_cp[k].versions fails on the placeholder a missing
\* identifier yields.
Slice(w, a, keys, dst) ==
  LET cat_cp == Copy(w, a, "T1")
      w2 == Catalog_init(cat_cp.w, dst)
  IN IF \E k \in Range(keys) : Catalog_getitem(w2, "T1", k).kind = "dummy"
     THEN Done(Fail(w2), {"T1"})
     ELSE Done(AssignAll(Ok(w2), dst,
                         { [k |-> i.k, v |-> i.v,
                            value |-> Entry_getitem(Versions(w2, "T1", i.k), i.v)]
                           : i \in { j \in Items(w2, "T1") : j.k \in Range(keys) } }),
               {"T1"})

\* Catalog.__eq__ as it would be without the deep comparison.
Catalog_eq_keysOnly(w, a, b) ==
  Catalog_len(Difference(w, a, b, "T3").w, "T3") = 0

\* Catalog.__eq__ (of two catalogs)
Catalog_eq(w, a, b) ==
  LET diff == Difference(w, a, b, "T3")
  IN IF Catalog_len(diff.w, "T3") > 0 THEN FALSE
     ELSE \A k \in Catalog_keys(w, a) : \A v \in DOMAIN Versions(w, a, k) :
            CatalogSource_eq(Entry_getitem(Versions(w, a, k), v),
                             Entry_getitem(Versions(w, b, k), v))

\* Catalog.from_files: every file's catalog is joined onto the accumulator.
RECURSIVE From_files(_, _, _)
From_files(r, files, dst) ==
  IF files = <<>> \/ ~r.ok THEN Done(r, {"T4"})
  ELSE LET new_cat == Decode(r.w, Head(files), "T4")
       IN IF ~new_cat.ok THEN Done(new_cat, {"T4"})
          ELSE From_files(Join(new_cat.w, dst, "T4", dst), Tail(files), dst)

\* Catalog.from_plugins: the plugins' (CatalogKey, Source) pairs, in the
\* order the two nested loops visit them, assigned into a new catalog.
RECURSIVE PluginLoop(_, _, _)
PluginLoop(r, frags, dst) ==
  IF frags = <<>> \/ ~r.ok THEN r
  ELSE PluginLoop(SetVersion(r.w, dst, Head(frags).key[1], Head(frags).key[2],
                             Head(frags).source),
                  Tail(frags), dst)

From_plugins(w, frags, dst) == PluginLoop(Ok(Catalog_init(w, dst)), frags, dst)

\* ------------------------------------------------------------------- state
VARIABLES
  sources,   \* every catalog's _sources: identifier -> address of its entry
  heap,      \* address -> versions dict (version -> CatalogSource)
  dummy,     \* the placeholder the caller holds, if any
  last       \* the last operation: what was called, on what, and its outcome

vars == <<sources, heap, dummy, last>>

World == [sources |-> sources, heap |-> heap]

NoDummy == [kind |-> "none", identifier |-> "-", catalog |-> "-"]
NoSource == [driver_name |-> "-", driver_kwargs |-> "-", metadata |-> "-"]

Last(op, id, ver, src, ok, ret, before) ==
  [op |-> op, id |-> id, ver |-> ver, src |-> src, ok |-> ok, ret |-> ret,
   before |-> before]

\* What a caller can read from the three catalogs it names: the payload at
\* every (identifier, version) pair.
Callers == {"A", "B", "R"}
Payload(cs) ==
  [driver_name |-> cs.driver_name, driver_kwargs |-> cs.driver_kwargs,
   metadata |-> cs.metadata]
Content(w, c) == [p \in Pairs(w, c) |-> Payload(Versions(w, c, p[1])[p[2]])]
Snapshot(w) == [c \in Callers |-> Content(w, c)]

\* No call is under way: the caller is between two statements.
Idle == Last("idle", "-", 0, NoSource, TRUE, "-", {})

Init ==
  /\ sources = EmptyWorld.sources
  /\ heap = EmptyWorld.heap
  /\ dummy = NoDummy
  /\ last = Idle

SetWorld(r) ==
  /\ sources' = r.w.sources
  /\ heap' = r.w.heap

\* The outcome of an operation that returns a catalog, bound to the slot it
\* was computed at: a failed call returns nothing and binds nothing.
Bind(r) ==
  /\ sources' = IF r.ok THEN r.w.sources ELSE sources
  /\ heap' = IF r.ok THEN r.w.heap ELSE heap

\* ---------------------------------------------------------- inputs
Docs ==
  { [identifier |-> k, version |-> v, driver_name |-> s.driver_name,
     driver_kwargs |-> s.driver_kwargs, metadata |-> s.metadata]
    : k \in Idents, v \in 1 .. MaxVer, s \in Sources }

\* Catalog texts of at most n documents, no (identifier, version) twice.
Texts(n) ==
  { t \in SUBSET Docs :
      /\ Cardinality(t) <= n
      /\ \A d1 \in t, d2 \in t :
           (d1.identifier = d2.identifier /\ d1.version = d2.version) => d1 = d2 }

OperandTexts == Texts(MaxPairs)

\* The text of a catalog with one source or none.
SingleTexts == { {} } \cup { {d} : d \in Docs }

\* What the plugins contribute: (CatalogKey, Source) pairs; a CatalogKey's
\* version may be the sentinel (its default) or any other integer.
FragItems == [key : Idents \X Indexes, source : Sources]
Frags == UNION { [1 .. n -> FragItems] : n \in 0 .. MaxFrag }

\* The key lists a caller passes to slice.
KeyLists ==
  { s \in UNION { [1 .. n -> Idents] : n \in 0 .. Cardinality(Idents) } :
      \A i \in DOMAIN s, j \in DOMAIN s : s[i] = s[j] => i = j }

\* ------------------------------------------- the life of one catalog, A
\* A[k] = s
SetItem(k, s) ==
  /\ SetWorld(Catalog_setitem(World, "A", k, s))
  /\ last' = Last("setitem", k, DefaultVersion, s, TRUE, "-",
                  Snapshot(World))
  /\ UNCHANGED dummy

\* del A[k]
DelItem(k) ==
  LET r == Catalog_delitem(World, "A", k)
  IN /\ SetWorld(r)
     /\ last' = Last("delitem", k, 0, NoSource, r.ok, "-",
                     Snapshot(World))
     /\ UNCHANGED dummy

\* x = A[k]: the caller keeps the placeholder a missing identifier yields.
GetItem(k) ==
  LET t == Catalog_getitem(World, "A", k)
  IN /\ dummy' = IF t.kind = "dummy" THEN t ELSE dummy
     /\ last' = Last("getitem", k, Sentinel, NoSource, TRUE, t,
                     Snapshot(World))
     /\ UNCHANGED <<sources, heap>>

\* x[index] = s on the placeholder the caller holds.
DummySetItem(index, s) ==
  /\ dummy.kind = "dummy"
  /\ LET r == Dummy_setitem(World, dummy, index, s)
     IN /\ SetWorld(r)
        /\ last' = Last("dummy_setitem", dummy.identifier, index, s, r.ok, "-",
                        Snapshot(World))
  /\ UNCHANGED dummy

\* A[k][index] = s
SetVer(k, index, s) ==
  LET r == SetVersion(World, "A", k, index, s)
  IN /\ SetWorld(r)
     /\ last' = Last("setversion", k, index, s, r.ok, "-",
                     Snapshot(World))
     /\ UNCHANGED dummy

\* list(A.items())
Iterate ==
  /\ last' = Last("iter", "-", 0, NoSource, TRUE, Catalog_iter(World, "A"),
                  Snapshot(World))
  /\ UNCHANGED <<sources, heap, dummy>>

\* A = Catalog.from_plugins()
FromPlugins(frags) ==
  /\ LET r == From_plugins(World, frags, "A")
     IN /\ Bind(r)
        /\ last' = Last("from_plugins", "-", 0, NoSource, r.ok, frags,
                        Snapshot(World))
  /\ UNCHANGED dummy

\* A = A.op(...): the name A is bound to the catalog the call returns, and a
\* placeholder of the catalog it named before no longer concerns A.
Rebound(op, r) ==
  /\ Bind([w |-> Collect(r.w, {"B"}), ok |-> r.ok])
  /\ dummy' = IF r.ok THEN NoDummy ELSE dummy
  /\ last' = Last(op, "-", 0, NoSource, r.ok, "-", Snapshot(World))

RebindCopy == Rebound("copy", Copy(World, "A", "A"))
RebindFilter(p) == Rebound("filter", Filter(World, "A", p, "A"))
RebindSlice(keys) == Rebound("slice", Slice(World, "A", keys, "A"))

\* A = A.op(Catalog.from_str(text))
WithOther(text) == Decode(World, text, "B").w
RebindUnion(text) == Rebound("union", Union(WithOther(text), "A", "B", "A"))
RebindIntersection(text) ==
  Rebound("intersection", Intersection(WithOther(text), "A", "B", "A"))
RebindDifference(text) ==
  Rebound("difference", Difference(WithOther(text), "A", "B", "A"))
RebindJoin(text) == Rebound("join", Join(WithOther(text), "A", "B", "A"))

\* The statement is over: the caller goes on to its next one.
Return ==
  /\ last # Idle
  /\ last' = Idle
  /\ UNCHANGED <<sources, heap, dummy>>

\* The caller's statements, one at a time: a statement starts when no call is
\* under way.  A catalog's life may start with from_plugins: the call does
\* not read the catalog A named before, so it is made while A is still empty.
Next ==
  \/ Return
  \/ last = Idle /\ \E k \in Idents, s \in Sources : SetItem(k, s)
  \/ last = Idle /\ \E k \in Idents : DelItem(k)
  \/ last = Idle /\ \E k \in Idents : GetItem(k)
  \/ last = Idle /\ \E index \in Indexes, s \in Sources : DummySetItem(index, s)
  \/ last = Idle /\ \E k \in Idents, index \in Indexes, s \in Sources :
                      SetVer(k, index, s)
  \/ last = Idle /\ Iterate
  \/ /\ last = Idle
     /\ Catalog_len(World, "A") = 0
     /\ dummy = NoDummy
     /\ \E frags \in Frags : FromPlugins(frags)
  \/ last = Idle /\ RebindCopy
  \/ last = Idle /\ \E p \in Preds : RebindFilter(p)
  \/ last = Idle /\ \E keys \in KeyLists : RebindSlice(keys)
  \/ last = Idle /\ \E text \in SingleTexts : RebindUnion(text)
  \/ last = Idle /\ \E text \in SingleTexts : RebindIntersection(text)
  \/ last = Idle /\ \E text \in SingleTexts : RebindDifference(text)
  \/ last = Idle /\ \E text \in SingleTexts : RebindJoin(text)

Spec == Init /\ [][Next]_vars

\* ------------------------------------------- the set algebra of A and B
\* A and B are catalogs read from two texts.
Loaded(ta, tb) ==
  /\ LET w == Decode(Decode(EmptyWorld, ta, "A").w, tb, "B").w
     IN /\ sources = w.sources
        /\ heap = w.heap
  /\ dummy = NoDummy
  /\ last = Idle

InitAlgebra == \E ta \in OperandTexts, tb \in OperandTexts : Loaded(ta, tb)

\* R = A.op(B): a failed call leaves R unbound.
Derived(op, arg, r) ==
  /\ Bind(r)
  /\ last' = Last(op, "-", 0, NoSource, r.ok, arg, Snapshot(World))
  /\ UNCHANGED dummy

DoCopy == Derived("copy", "-", Copy(World, "A", "R"))
DoUnion == Derived("union", "-", Union(World, "A", "B", "R"))
DoIntersection == Derived("intersection", "-", Intersection(World, "A", "B", "R"))
DoDifference == Derived("difference", "-", Difference(World, "A", "B", "R"))
DoDifferenceSelf ==
  Derived("difference_self", "-", Difference(World, "A", "A", "R"))
DoJoin == Derived("join", "-", Join(World, "A", "B", "R"))
DoFilter(p) == Derived("filter", p, Filter(World, "A", p, "R"))
DoSlice(keys) == Derived("slice", keys, Slice(World, "A", keys, "R"))

\* R = Catalog.from_files([fa, fb]) where the files hold A's and B's text.
DoFromFiles ==
  Derived("from_files", "-",
          From_files(Ok(Catalog_init(World, "R")),
                     <<Encode(World, "A"), Encode(World, "B")>>, "R"))

\* A == B and B == A
DoCompare ==
  /\ last' = Last("eq", "-", 0, NoSource, TRUE,
                  [ab |-> Catalog_eq(World, "A", "B"),
                   ba |-> Catalog_eq(World, "B", "A")], Snapshot(World))
  /\ UNCHANGED <<sources, heap, dummy>>

\* One operation on the two catalogs.
NextAlgebra ==
  \/ last = Idle /\ DoUnion
  \/ last = Idle /\ DoIntersection
  \/ last = Idle /\ DoDifference
  \/ last = Idle /\ DoDifferenceSelf
  \/ last = Idle /\ DoJoin
  \/ last = Idle /\ DoFromFiles
  \/ last = Idle /\ DoCompare

SpecAlgebra == InitAlgebra /\ [][NextAlgebra]_vars

\* ------------------------------------------------ every derivation of A
\* A is read from a text of up to MaxPairs sources; the other operand, B,
\* from the text of one source or none.
InitDerive == \E ta \in OperandTexts, tb \in SingleTexts : Loaded(ta, tb)

\* One derivation, by any of the seven operations.
NextDerive ==
  \/ last = Idle /\ DoCopy
  \/ last = Idle /\ DoUnion
  \/ last = Idle /\ DoIntersection
  \/ last = Idle /\ DoDifference
  \/ last = Idle /\ DoJoin
  \/ last = Idle /\ \E p \in Preds : DoFilter(p)
  \/ last = Idle /\ \E keys \in KeyLists : DoSlice(keys)

SpecDerive == InitDerive /\ [][NextDerive]_vars

\* ------------------------------------------------------------------ claims
Cur(c) == Content(World, c)
Before(c) == last.before[c]
KeysOf(content) == { p[1] : p \in DOMAIN content }
VersOf(content, k) == { p[2] : p \in { q \in DOMAIN content : q[1] = k } }
Greatest(S) == CHOOSE v \in S : \A u \in S : u <= v
InBoth == DOMAIN Before("A") \cap DOMAIN Before("B")
InEither == DOMAIN Before("A") \cup DOMAIN Before("B")
Conflict == \E p \in InBoth : Before("A")[p] # Before("B")[p]
\* B's payload where B defines the pair, A's otherwise.
Merged ==
  [p \in InEither |->
     IF p \in DOMAIN Before("B") THEN Before("B")[p] ELSE Before("A")[p]]
\* The content of c at the pairs whose identifier is not k.
Others(content, k) ==
  [p \in { q \in DOMAIN content : q[1] # k } |-> content[p]]

\* C1: union(A, B) holds exactly the pairs of A or B, each with B's payload
\* when B defines the pair and A's payload otherwise.
C1_UnionBWins ==
  last.op = "union" =>
    /\ last.ok
    /\ Cur("R") = Merged
    /\ Catalog_keys(World, "R") = KeysOf(Merged)

C1_Witness ==
  /\ last.op = "union"
  /\ \E p \in InBoth :
       /\ Before("A")[p] # Before("B")[p]
       /\ Cur("R")[p] = Before("B")[p]
  /\ DOMAIN Before("A") \ DOMAIN Before("B") # {}

\* C2: intersection(A, B) fails exactly when a pair present in both carries
\* different payloads; otherwise it returns exactly the pairs present in
\* both, each with the common payload.
C2_IntersectionAsserts ==
  last.op = "intersection" =>
    /\ last.ok <=> ~Conflict
    /\ last.ok => Cur("R") = [p \in InBoth |-> Before("A")[p]]
    /\ ~last.ok => Cur("R") = Before("R")

C2_Witness ==
  /\ last.op = "intersection"
  /\ ~last.ok
  /\ \E p \in InBoth, q \in InBoth :
       Before("A")[p] # Before("B")[p] /\ Before("A")[q] = Before("B")[q]

\* C3: join(A, B) fails whenever A and B share a pair, whatever the payloads,
\* and equals union(A, B) when they share none; from_files of two files fails
\* as soon as the files define the same pair.
C3_JoinDisjoint ==
  last.op \in {"join", "from_files"} =>
    /\ last.ok <=> InBoth = {}
    /\ last.ok => Cur("R") = Merged
    /\ ~last.ok => Cur("R") = Before("R")

C3_Witness ==
  /\ last.op = "join"
  /\ ~last.ok
  /\ InBoth # {}
  /\ \A p \in InBoth : Before("A")[p] = Before("B")[p]

\* C4: difference(A, B) holds a pair iff exactly one of A and B holds it,
\* with that catalog's payload; difference(A, A) is empty.
C4_SymmetricDifference ==
  /\ last.op = "difference" =>
       /\ last.ok
       /\ Cur("R") =
            [p \in InEither \ InBoth |->
               IF p \in DOMAIN Before("A") THEN Before("A")[p] ELSE Before("B")[p]]
  /\ last.op = "difference_self" =>
       last.ok /\ DOMAIN Cur("R") = {} /\ Catalog_len(World, "R") = 0

C4_Witness ==
  /\ last.op = "difference"
  /\ \E k \in Idents :
       /\ VersOf(Before("A"), k) \cap VersOf(Before("B"), k) # {}
       /\ \E v \in VersOf(Before("B"), k) \ VersOf(Before("A"), k) :
            <<k, v>> \in DOMAIN Cur("R")

\* C5: A == B iff A and B hold the same pairs with equal payloads, and the
\* comparison is symmetric.
C5_DeepEquality ==
  last.op = "eq" =>
    /\ last.ret.ab <=> (Before("A") = Before("B"))
    /\ last.ret.ab <=> last.ret.ba

C5_Witness ==
  /\ last.op = "eq"
  /\ ~last.ret.ab
  /\ DOMAIN Before("A") = DOMAIN Before("B")
  /\ \E k \in Idents :
       LET vs == VersOf(Before("A"), k)
       IN /\ vs # {}
          /\ \A v \in vs :
               (Before("A")[<<k, v>>] # Before("B")[<<k, v>>]) <=> (v # Greatest(vs))
          /\ \E v \in vs : v # Greatest(vs)

\* The assignments and deletions a caller can make on catalog c.
Mutations(c) ==
  { Catalog_setitem(World, c, k, s).w : k \in Idents, s \in Sources }
  \cup { Catalog_delitem(World, c, k).w : k \in Idents }
  \cup { SetVersion(World, c, k, v, s).w :
           k \in Idents, v \in 1 .. MaxVer, s \in Sources }

\* The entry objects catalog c holds.
Entries(c) == { sources[c][k] : k \in DOMAIN sources[c] }

Derivations ==
  {"copy", "union", "intersection", "difference", "join", "filter", "slice"}

\* C6: a derivation leaves its operands as they were, and the catalog it
\* returns shares no entry with them: no assignment or deletion on the result
\* changes an operand, and none on an operand changes the result.
C6_Isolation ==
  last.op \in Derivations =>
    /\ Cur("A") = Before("A")
    /\ Cur("B") = Before("B")
    /\ Entries("R") \cap (Entries("A") \cup Entries("B")) = {}
    /\ \A w \in Mutations("R") :
         Content(w, "A") = Cur("A") /\ Content(w, "B") = Cur("B")
    /\ \A w \in Mutations("A") \cup Mutations("B") : Content(w, "R") = Cur("R")

C6_Witness ==
  /\ last.op = "union"
  /\ InBoth # {}
  /\ Conflict
  /\ \E w \in Mutations("R") : Content(w, "R") # Cur("R")

\* C7: reading a missing identifier never fails and changes nothing; an
\* assignment at a version v > 0 through the placeholder makes the
\* identifier present with exactly the version v and the assigned payload,
\* and leaves every other identifier as it was.
C7_CreateOnAssign ==
  /\ (last.op = "getitem" /\ last.id \notin KeysOf(Before("A"))) =>
       /\ last.ok
       /\ last.ret.kind = "dummy"
       /\ Cur("A") = Before("A")
       /\ ~Catalog_contains(World, "A", last.id)
       /\ Catalog_len(World, "A") = Cardinality(KeysOf(Before("A")))
  /\ (last.op = "dummy_setitem" /\ last.ver > 0) =>
       /\ last.ok
       /\ Catalog_contains(World, "A", last.id)
       /\ VersOf(Cur("A"), last.id) = {last.ver}
       /\ Cur("A")[<<last.id, last.ver>>] = last.src
       /\ Others(Cur("A"), last.id) = Others(Before("A"), last.id)

C7_Witness ==
  /\ last.op = "dummy_setitem"
  /\ last.ver = 2
  /\ last.id \notin KeysOf(Before("A"))
  /\ KeysOf(Before("A")) # {}
  /\ VersOf(Cur("A"), last.id) = {2}

\* C8: in every state, for every identifier present, catalog[id] and the
\* pair iteration yields for it are the entry stored at the greatest version
\* under that identifier.
C8_LookupGreatest ==
  /\ \A k \in Catalog_keys(World, "A") :
       LET top == Greatest(VersOf(Cur("A"), k))
           got == Catalog_getitem(World, "A", k)
       IN /\ got.kind = "source"
          /\ got.cs = Versions(World, "A", k)[top]
          /\ got.cs.version = top
          /\ { e \in Catalog_iter(World, "A") : e[1] = k }
               = { <<k, Versions(World, "A", k)[top]>> }
  /\ (last.op = "getitem" /\ last.id \in KeysOf(Before("A"))) =>
       /\ last.ret.kind = "source"
       /\ last.ret.cs.version = Greatest(VersOf(Before("A"), last.id))
       /\ Payload(last.ret.cs) = Before("A")[<<last.id, last.ret.cs.version>>]
  /\ last.op = "iter" =>
       /\ { e[1] : e \in last.ret } = KeysOf(Before("A"))
       /\ \A e \in last.ret :
            /\ e[2].version = Greatest(VersOf(Before("A"), e[1]))
            /\ Payload(e[2]) = Before("A")[<<e[1], e[2].version>>]

C8_Witness ==
  /\ last.op = "setversion"
  /\ last.ok
  /\ last.ver = 1
  /\ VersOf(Before("A"), last.id) = {2}
  /\ Catalog_getitem(World, "A", last.id).cs.version = 2

\* C9: every stored version key is a positive integer, the entry stored
\* under identifier i at version v records i and v, and an assignment of a
\* version <= 0 through the placeholder fails and changes nothing.
C9_PositiveVersions ==
  /\ \A c \in Slots : \A k \in Catalog_keys(World, c) :
       /\ DOMAIN Versions(World, c, k) # {}
       /\ \A v \in DOMAIN Versions(World, c, k) :
            /\ v \in Nat /\ v > 0
            /\ Versions(World, c, k)[v].identifier = k
            /\ Versions(World, c, k)[v].version = v
  /\ (last.op = "dummy_setitem" /\ last.ver <= 0) =>
       ~last.ok /\ Cur("A") = Before("A")

C9_Witness ==
  /\ last.op = "dummy_setitem"
  /\ last.ver = Sentinel
  /\ ~last.ok
  /\ DOMAIN Cur("A") # {}

\* C10: A[id] = source leaves id with exactly one version, 1, carrying the
\* assigned payload, whatever versions id had, and changes no other
\* identifier.
C10_SetItemReplaces ==
  last.op = "setitem" =>
    /\ last.ok
    /\ VersOf(Cur("A"), last.id) = {1}
    /\ Cur("A")[<<last.id, 1>>] = last.src
    /\ Others(Cur("A"), last.id) = Others(Before("A"), last.id)

C10_Witness ==
  /\ last.op = "setitem"
  /\ 2 \in VersOf(Before("A"), last.id)
  /\ Others(Before("A"), last.id) # Others(Before("A"), "-")
  /\ VersOf(Cur("A"), last.id) = {1}
====
